---- MODULE Spec2Model ----
(***************************************************************************)
(* Model of the 14-word mnemonic seed of src/src/monero_seed.cpp: the two  *)
(* constructors of monero_seed (from a creation date, from a phrase) and   *)
(* the phrase printer, over GF(2^11), the polynomial container and the     *)
(* Reed-Solomon code the constructors call.                                *)
(***************************************************************************)
EXTENDS Integers, Sequences, FiniteSets

(***************************************************************************)
(* Bounds of the model.                                                    *)
(***************************************************************************)
\* seeds drawn by secure_random::gen_bytes are SeedPattern(0..MaxSeed)
MaxSeed == 2
\* creation dates lie at the quantisation steps 0..MaxStep and 1023, 1024
MaxStep == 0
\* substituted words are the original index xor 1..MaxFlip
MaxFlip == 2
\* phrases typed by hand are TypedPhrase(0..MaxTyped)
MaxTyped == 4

(***************************************************************************)
(* Program constants.                                                      *)
(***************************************************************************)
epoch == 1590969600
time_step == 2629746
date_bits == 10
version_bits == 3
reserved_bits == 2
check_digits == 1
CHAR_BIT == 8
seed_size == 16
salt_size == 25
gf_size == 11
gf_elements == 2048
gf_modulus == 2053
gf_generator == 2
max_degree == 13
phrase_words == max_degree + 1
checksum_size == gf_size * check_digits
total_bits == gf_size * phrase_words
ARGON2_OK == 0
ARGON2_MEMORY_ALLOCATION_ERROR == -22

RECURSIVE Pow2(_)
Pow2(n) == IF n = 0 THEN 1 ELSE 2 * Pow2(n - 1)

(***************************************************************************)
(* C integer operators on non-negative values.                             *)
(***************************************************************************)
\* a ^ b, bit by bit
RECURSIVE XorBits(_, _)
XorBits(a, b) ==
    IF a = 0 THEN b
    ELSE IF b = 0 THEN a
    ELSE (((a % 2) + (b % 2)) % 2) + 2 * XorBits(a \div 2, b \div 2)

\* a ^ b for a, b < 64, tabulated
XorTable == [a \in 0..63 |-> [b \in 0..63 |-> XorBits(a, b)]]

\* a ^ b, six bits at a time
RECURSIVE BitXor(_, _)
BitXor(a, b) ==
    IF a = 0 THEN b
    ELSE IF b = 0 THEN a
    ELSE XorTable[a % 64][b % 64] + 64 * BitXor(a \div 64, b \div 64)

RECURSIVE BitOr(_, _)
BitOr(a, b) ==
    IF a = 0 THEN b
    ELSE IF b = 0 THEN a
    ELSE (IF a % 2 = 1 \/ b % 2 = 1 THEN 1 ELSE 0) + 2 * BitOr(a \div 2, b \div 2)

\* a & ((1u << n) - 1)
LowBits(a, n) == a % Pow2(n)
\* a >> n
Shr(a, n) == a \div Pow2(n)
\* a << n
Shl(a, n) == a * Pow2(n)
\* std::min
Min(a, b) == IF a < b THEN a ELSE b

(***************************************************************************)
(* std::time_t is 64 bits wide; a value v is held as <<v \div Limb, v %    *)
(* Limb>> so that no intermediate result leaves the checker's integers.    *)
(***************************************************************************)
Limb == Pow2(9)
WNorm(h, l) == <<h + (l \div Limb), l % Limb>>
ToWide(n) == WNorm(0, n)
WAdd(a, b) == WNorm(a[1] + b[1], a[2] + b[2])
WSub(a, b) == WNorm(a[1] - b[1], a[2] - b[2])
WLess(a, b) == a[1] < b[1] \/ (a[1] = b[1] /\ a[2] < b[2])
\* a / d for a >= 0 and a small divisor d, by long division over the limbs
WDiv(a, d) == ((a[1] \div d) * Limb) + ((((a[1] % d) * Limb) + a[2]) \div d)
\* n * d for small n and d
WMul(n, d) == WNorm(n * (d \div Limb), n * (d % Limb))

(***************************************************************************)
(* gf_elem / gf_2048: the field GF(2^11) modulo x^11 + x^2 + 1.            *)
(***************************************************************************)
\* the sum of two field elements: a ^ b on 11 bits
gf_add(a, b) == XorTable[a % 64][b % 64] + 64 * XorTable[a \div 64][b \div 64]

\* multiplication by x, reduced
gf_xtime(a) == IF 2 * a >= gf_elements THEN BitXor(2 * a, gf_modulus) ELSE 2 * a

RECURSIVE gf_mul(_, _)
gf_mul(a, b) ==
    IF b = 0 \/ a = 0 THEN 0
    ELSE IF b = 1 THEN a
    ELSE gf_add(IF b % 2 = 1 THEN a ELSE 0, gf_mul(gf_xtime(a), b \div 2))

RECURSIVE gf_pow(_, _)
gf_pow(a, n) == IF n = 0 THEN 1 ELSE gf_mul(a, gf_pow(a, n - 1))

gf_inv(a) == CHOOSE y \in 1..(gf_elements - 1) : gf_mul(a, y) = 1

(***************************************************************************)
(* gf_poly: max_degree + 1 coefficients (coeff[i + 1] is the coefficient   *)
(* of x^i) and a degree field.                                             *)
(***************************************************************************)
\* gf_poly(): every coefficient zero; write_data stores its first bits at
\* poly[poly.degree()], so the default degree is index 0.
gf_poly == [coeff |-> [i \in 1..phrase_words |-> 0], degree |-> 0]

\* the highest index i in -1..n - 1 with a nonzero coefficient
RECURSIVE top_nonzero(_, _)
top_nonzero(c, i) ==
    IF i < 0 THEN -1 ELSE IF c[i + 1] # 0 THEN i ELSE top_nonzero(c, i - 1)

\* gf_poly::set_degree()
set_degree(poly) == [poly EXCEPT !.degree = top_nonzero(poly.coeff, max_degree)]

RECURSIVE horner(_, _, _, _)
horner(c, x, i, acc) ==
    IF i < 0 THEN acc ELSE horner(c, x, i - 1, gf_add(gf_mul(acc, x), c[i + 1]))

\* evaluation at x over the coefficients 0..degree
poly_eval(poly, x) == horner(poly.coeff, x, poly.degree, 0)

\* g(x) * (x - a), g a sequence of coefficients, lowest first
poly_mul_binom(g, a) ==
    [i \in 1..(Len(g) + 1) |->
        gf_add(IF i > 1 THEN g[i - 1] ELSE 0,
               IF i <= Len(g) THEN gf_mul(a, g[i]) ELSE 0)]

\* the remainder of c modulo the monic g, left in c[1..Len(g) - 1]
RECURSIVE poly_rem(_, _, _)
poly_rem(c, g, i) ==
    IF i < Len(g) - 1 THEN c
    ELSE LET f == c[i + 1]
             low == i - (Len(g) - 1)
         IN poly_rem([j \in 1..Len(c) |->
                        IF j - 1 >= low /\ j - 1 <= i
                        THEN gf_add(c[j], gf_mul(f, g[j - low]))
                        ELSE c[j]], g, i - 1)

(***************************************************************************)
(* reed_solomon_code with check_digits check symbols.                      *)
(***************************************************************************)
\* g(x) = (x - alpha^0) ... (x - alpha^(k-1))
RECURSIVE rs_generator(_)
rs_generator(k) ==
    IF k = 0 THEN <<1>>
    ELSE poly_mul_binom(rs_generator(k - 1), gf_pow(gf_generator, k - 1))

\* reed_solomon_code::encode: message * x^K, with the remainder modulo g in
\* the coefficients 0..K-1
rs_encode(poly) ==
    LET K == check_digits
        shifted == [i \in 1..phrase_words |-> IF i <= K THEN 0 ELSE poly.coeff[i - K]]
        rem == poly_rem(shifted, rs_generator(K), max_degree)
    IN [coeff |-> [i \in 1..phrase_words |-> IF i <= K THEN rem[i] ELSE shifted[i]],
        degree |-> poly.degree + K]

\* reed_solomon_code::check: zero at every root of g
rs_check(poly) ==
    \A j \in 0..(check_digits - 1) : poly_eval(poly, gf_pow(gf_generator, j)) = 0

(***************************************************************************)
(* The bit packer.                                                         *)
(***************************************************************************)
RECURSIVE write_data(_, _, _, _)
write_data(poly, rem_bits, value, bits) ==
    LET p1 == IF rem_bits = 0 THEN [poly EXCEPT !.degree = @ + 1] ELSE poly
        rem1 == IF rem_bits = 0 THEN gf_size ELSE rem_bits
        digit_bits == Min(rem1, bits)
        rest_bits == bits - digit_bits
        rem2 == rem1 - digit_bits
        p2 == [p1 EXCEPT !.coeff[p1.degree + 1] =
                  BitOr(@, Shl(LowBits(Shr(value, rest_bits), digit_bits), rem2))]
    IN IF rest_bits > 0
       THEN write_data(p2, rem2, LowBits(value, rest_bits), rest_bits)
       ELSE [poly |-> p2, rem_bits |-> rem2]

\* the conversion of an int to the destination type T of read_data
\* (uint8_t for the seed bytes, unsigned for the other fields)
Narrow(v, width) == IF width >= 31 THEN v ELSE v % Pow2(width)

\* read_data with the bits of the first coefficient left unshifted
RECURSIVE read_data_unshifted(_, _, _, _, _)
read_data_unshifted(poly, used_bits, value, bits, width) ==
    LET coeff_index == used_bits \div gf_size
        bit_index == used_bits % gf_size
        digit_bits == Min(gf_size - bit_index, bits)
        rem_bits == gf_size - bit_index - digit_bits
        rest_bits == bits - digit_bits
        v1 == Narrow(BitOr(value,
                  LowBits(Shr(poly.coeff[coeff_index + 1], rem_bits), bits)), width)
        used1 == used_bits + digit_bits
    IN IF rest_bits > 0
       THEN read_data_unshifted(poly, used1, v1, rest_bits, width)
       ELSE [value |-> v1, used_bits |-> used1]

RECURSIVE read_data(_, _, _, _, _)
read_data(poly, used_bits, value, bits, width) ==
    LET coeff_index == used_bits \div gf_size
        bit_index == used_bits % gf_size
        digit_bits == Min(gf_size - bit_index, bits)
        rem_bits == gf_size - bit_index - digit_bits
        rest_bits == bits - digit_bits
        v1 == Narrow(BitOr(value,
                  Shl(LowBits(Shr(poly.coeff[coeff_index + 1], rem_bits), bits), rest_bits)),
                  width)
        used1 == used_bits + digit_bits
    IN IF rest_bits > 0
       THEN read_data(poly, used1, v1, rest_bits, width)
       ELSE [value |-> v1, used_bits |-> used1]

(***************************************************************************)
(* wordlist::english.  A token of a phrase is a number: the word with      *)
(* index i is i, the erasure marker and the strings outside the list have  *)
(* the codes below.                                                        *)
(***************************************************************************)
\* monero_seed::erasure, "xxxx"
erasure == gf_elements
\* a string that is no word and not the marker
unknown_word == gf_elements + 1
\* the empty string
empty_word == gf_elements + 2
\* correction_ of a seed parsed without an erasure
no_word == empty_word
\* what wordlist::parse returns for a string outside the list
absent == -1

\* wordlist::parse: the index of a word, -1 when absent
wordlist_parse(tok) == IF tok \in 0..(gf_elements - 1) THEN tok ELSE absent
\* wordlist::get_word
wordlist_get_word(i) == i

(***************************************************************************)
(* The monero_seed object.                                                 *)
(***************************************************************************)
zero_seed == [i \in 1..seed_size |-> 0]
no_key == [called |-> FALSE, derived |-> FALSE, pwd |-> <<>>, salt |-> <<>>]

\* no object: nothing constructed yet, or the constructor threw `status`
NoSeed(status) ==
    [status |-> status, message |-> gf_poly, seed |-> zero_seed, version |-> 0,
     reserved |-> 0, date |-> <<0, 0>>, correction |-> no_word, key |-> no_key]

\* "Monero 14-word seed" and its terminating NUL
salt_text == <<77, 111, 110, 101, 114, 111, 32, 49, 52, 45, 119, 111, 114, 100,
               32, 115, 101, 101, 100, 0>>

\* char salt[25] = "Monero 14-word seed"; salt[20] = version_;
\* store32(salt + 21, quantized_date)
make_salt(version, quantized_date) ==
    [i \in 1..salt_size |->
        IF i <= Len(salt_text) THEN salt_text[i]
        ELSE IF i = 21 THEN version % 256
        ELSE Shr(quantized_date, 8 * (i - 22)) % 256]

\* argon2id_hash_raw(...) returning rc: key_ is written only when rc is
\* ARGON2_OK; the constructors do not look at rc
derive_key(seed, version, quantized_date, rc) ==
    [called |-> TRUE, derived |-> (rc = ARGON2_OK), pwd |-> seed,
     salt |-> make_salt(version, quantized_date)]

RECURSIVE write_seed(_, _, _)
write_seed(w, seed, i) ==
    IF i > Len(seed) THEN w
    ELSE LET n == write_data(w.poly, w.rem_bits, seed[i], CHAR_BIT)
         IN \* (a store past the last coefficient ends the walk)
            IF n.poly.degree > max_degree THEN n ELSE write_seed(n, seed, i + 1)

\* quantize without the mask
quantize_unmasked(date_created) ==
    WDiv(WSub(date_created, ToWide(epoch)), time_step)

\* ((date_created - epoch) / time_step) & date_mask
quantize(date_created) ==
    LowBits(WDiv(WSub(date_created, ToWide(epoch)), time_step), date_bits)

\* monero_seed::monero_seed(std::time_t date_created), with the bytes
\* secure_random::gen_bytes returns and the return code of Argon2id
Generate(date_created, random, rc) ==
    IF WLess(date_created, ToWide(epoch)) THEN NoSeed("DateBeforeEpoch")
    ELSE LET quantized_date == quantize(date_created)
             w1 == write_data(gf_poly, gf_size, 0, version_bits)
             w2 == write_data(w1.poly, w1.rem_bits, 0, reserved_bits)
             w3 == write_data(w2.poly, w2.rem_bits, quantized_date, date_bits)
             w4 == write_seed(w3, random, 1)
         IN IF w4.rem_bits # 0 THEN NoSeed("AssertionFailed")
            ELSE [status |-> "ok",
                  message |-> rs_encode(w4.poly),
                  seed |-> random,
                  version |-> 0,
                  reserved |-> 0,
                  date |-> WAdd(ToWide(epoch), WMul(quantized_date, time_step)),
                  correction |-> no_word,
                  key |-> derive_key(random, 0, quantized_date, rc)]

\* the do-while loop of monero_seed::monero_seed(const std::string&) over
\* the tokens of the phrase, word_count tokens done
RECURSIVE parse_words(_, _, _, _)
parse_words(phrase, word_count, message, error) ==
    LET tok == phrase[word_count + 1]
        index == wordlist_parse(tok)
        \* offset < phrase.size(): text is left after the delimiter
        more == /\ word_count + 2 <= Len(phrase)
                /\ ~(word_count + 2 = Len(phrase) /\ phrase[Len(phrase)] = empty_word)
        stop(status) == [status |-> status, message |-> message, error |-> error,
                         word_count |-> word_count]
    IN IF word_count >= phrase_words THEN stop("OutOfBounds")
       ELSE IF index = absent /\ tok # erasure THEN stop("UnknownWord")
       ELSE IF index = absent /\ error >= 0 THEN stop("TooManyErasures")
       ELSE LET error1 == IF index = absent THEN word_count ELSE error
                m1 == [message EXCEPT !.coeff[word_count + 1] = index]
            IN IF more THEN parse_words(phrase, word_count + 1, m1, error1)
               ELSE [status |-> "ok", message |-> m1, error |-> error1,
                     word_count |-> word_count + 1]

RECURSIVE read_seed(_, _, _, _)
read_seed(poly, used_bits, seed, i) ==
    IF i > seed_size THEN [seed |-> seed, used_bits |-> used_bits]
    ELSE LET r == read_data(poly, used_bits, 0, CHAR_BIT, 8)
         IN \* (a load past the last coefficient ends the walk)
            IF r.used_bits > total_bits THEN [seed |-> seed, used_bits |-> r.used_bits]
            ELSE read_seed(poly, r.used_bits, [seed EXCEPT ![i] = r.value], i + 1)

\* lines 169-192: the fields read back from the checked message, and the key
unpack(message, correction, rc) ==
    LET r1 == read_data(message, checksum_size, 0, version_bits, 32)
        r2 == read_data(message, r1.used_bits, 0, reserved_bits, 32)
        r3 == read_data(message, r2.used_bits, 0, date_bits, 32)
        r4 == read_seed(message, r3.used_bits, zero_seed, 1)
    IN IF r4.used_bits # total_bits THEN NoSeed("AssertionFailed")
       ELSE [status |-> "ok",
             message |-> message,
             seed |-> r4.seed,
             version |-> r1.value,
             reserved |-> r2.value,
             date |-> WAdd(ToWide(epoch), WMul(r3.value, time_step)),
             correction |-> correction,
             key |-> derive_key(r4.seed, r1.value, r3.value, rc)]

least(S) == CHOOSE x \in S : \A y \in S : x <= y

\* message_[error] = i; rs.check(message_)
check_with(message, e, i) == rs_check([message EXCEPT !.coeff[e + 1] = i])

\* the scan below walks the field values scan_stride at a time
scan_stride == Pow2(6)

\* the scan started at 1 instead of 0
RECURSIVE first_hit_from_one(_, _, _)
first_hit_from_one(message, e, from) ==
    IF from >= gf_elements THEN -1
    ELSE LET stretch == (IF from = 0 THEN 1 ELSE from)
                            ..(Min(from + scan_stride, gf_elements) - 1)
         IN IF \E i \in stretch : check_with(message, e, i)
            THEN least({i \in stretch : check_with(message, e, i)})
            ELSE first_hit_from_one(message, e, from + scan_stride)

\* lines 154-160: the first i in 0..2047, from `from` on, for which the
\* message with coefficient e set to i passes rs.check; -1 when the loop
\* runs to its end
RECURSIVE first_hit(_, _, _)
first_hit(message, e, from) ==
    IF from >= gf_elements THEN -1
    ELSE LET stretch == from..(Min(from + scan_stride, gf_elements) - 1)
         IN IF \E i \in stretch : check_with(message, e, i)
            THEN least({i \in stretch : check_with(message, e, i)})
            ELSE first_hit(message, e, from + scan_stride)

\* verify without the check of a phrase that has no erasure
verify_unchecked(message, error) ==
    LET hit == first_hit(message, error, 0)
    IN IF error >= 0
       THEN IF hit = -1
            THEN [status |-> "NotFound",
                  message |-> [message EXCEPT !.coeff[error + 1] = gf_elements - 1],
                  correction |-> no_word]
            ELSE [status |-> "ok",
                  message |-> [message EXCEPT !.coeff[error + 1] = hit],
                  correction |-> wordlist_get_word(hit)]
       ELSE [status |-> "ok", message |-> message, correction |-> no_word]

\* lines 153-167: the erased coefficient searched, or the message checked
verify(message, error) ==
    LET hit == first_hit(message, error, 0)
    IN IF error >= 0
       THEN IF hit = -1
            THEN [status |-> "NotFound",
                  message |-> [message EXCEPT !.coeff[error + 1] = gf_elements - 1],
                  correction |-> no_word]
            ELSE [status |-> "ok",
                  message |-> [message EXCEPT !.coeff[error + 1] = hit],
                  correction |-> wordlist_get_word(hit)]
       ELSE IF ~rs_check(message)
       THEN [status |-> "ChecksumMismatch", message |-> message, correction |-> no_word]
       ELSE [status |-> "ok", message |-> message, correction |-> no_word]

\* monero_seed::monero_seed(const std::string& phrase): the set of outcomes,
\* over the return codes rcs Argon2id may give.
\* A store to words[word_count] with word_count = phrase_words is outside
\* the array: the build decides what follows.
\* With assertions compiled out, a scan that finds nothing goes on with the
\* last value tried and no correction.
Parse(phrase, rcs) ==
    LET loop == parse_words(phrase, 0, gf_poly, -1)
        checked == verify(set_degree(loop.message), loop.error)
    IN IF loop.status = "OutOfBounds"
       THEN {NoSeed("WrongTokenCount"), NoSeed("StackCorrupted")}
       ELSE IF loop.status # "ok" THEN {NoSeed(loop.status)}
       ELSE IF loop.word_count # phrase_words THEN {NoSeed("WrongTokenCount")}
       ELSE IF checked.status = "ChecksumMismatch" THEN {NoSeed("ChecksumMismatch")}
       ELSE IF checked.status = "NotFound"
       THEN {NoSeed("AssertionFailed")}
            \cup {unpack(checked.message, checked.correction, rc) : rc \in rcs}
       ELSE {unpack(checked.message, checked.correction, rc) : rc \in rcs}

\* the printer with the loop bound i < degree
print_seed_short(seed) ==
    IF seed.message.degree < 1 THEN <<empty_word>>
    ELSE [i \in 1..seed.message.degree |-> wordlist_get_word(seed.message.coeff[i])]

\* operator<<(std::ostream&, const monero_seed&): the tokens of the string
\* written (the empty string is one empty token)
print_seed(seed) ==
    IF seed.message.degree < 0 THEN <<empty_word>>
    ELSE [i \in 1..(seed.message.degree + 1) |-> wordlist_get_word(seed.message.coeff[i])]

(***************************************************************************)
(* The state: the creation date a caller holds until it constructs a seed  *)
(* from it (request), the object built from it (gen), the string printed   *)
(* from that object (text), the string handed to the phrase constructor    *)
(* (input), the object built from it (par) and the string printed from     *)
(* that object (reprint).                                                  *)
(***************************************************************************)
VARIABLES request, gen, text, input, par, reprint

vars == <<request, gen, text, input, par, reprint>>

no_text == <<>>
no_request == [k |-> 0, r |-> -1]
no_input == [phrase |-> no_text, kind |-> "none", pos |-> 0, arg |-> 0]

\* the bytes gen_bytes may return: all zero, mixed, mixed with the last 16
\* bits zero, all ones, ...
SeedPattern(i) ==
    [j \in 1..seed_size |->
        IF i % 4 = 3 THEN 255
        ELSE IF i % 2 = 0 /\ j >= seed_size - 1 THEN 0
        ELSE (i * ((37 * j) + 11)) % 256]

Seeds == {SeedPattern(i) : i \in 0..MaxSeed}

\* the quantisation steps the creation dates lie at; -1 is before the epoch
Steps == {-1, 1023, 1024} \cup 0..MaxStep

\* date_created = epoch + k * time_step + r, at the start of a step or one
\* second before the next
Requests == {[k |-> k, r |-> r] : k \in Steps, r \in {0, time_step - 1}}

DateOf(req) == WAdd(ToWide(epoch), WAdd(WMul(req.k, time_step), ToWide(req.r)))

ReturnCodes == {ARGON2_OK, ARGON2_MEMORY_ALLOCATION_ERROR}

\* a phrase typed by hand: word i * 64 twice, then twelve times word 0
TypedPhrase(i) ==
    [j \in 1..phrase_words |-> IF j <= 2 THEN (i * 64) % gf_elements ELSE 0]

\* the strings derived from a printed phrase t
Edited(t) ==
    {[phrase |-> t, kind |-> "same", pos |-> 0, arg |-> 0]}
    \cup {[phrase |-> [t EXCEPT ![e] = erasure], kind |-> "erase", pos |-> e, arg |-> 0] :
            e \in 1..Len(t)}
    \cup {[phrase |-> [t EXCEPT ![e] = BitXor(t[e], f)], kind |-> "substitute",
           pos |-> e, arg |-> f] : e \in 1..Len(t), f \in 1..MaxFlip}
    \cup {[phrase |-> [t EXCEPT ![e] = erasure, ![Len(t)] = erasure], kind |-> "erase2",
           pos |-> e, arg |-> Len(t)] : e \in {1}}
    \cup {[phrase |-> [t EXCEPT ![e] = unknown_word], kind |-> "unknown",
           pos |-> e, arg |-> 0] : e \in {1}}
    \cup {[phrase |-> SubSeq(t, 1, Len(t) - 1), kind |-> "drop", pos |-> Len(t), arg |-> 0]}
    \cup {[phrase |-> [SubSeq(t, 1, Len(t) - 1) EXCEPT ![1] = unknown_word],
           kind |-> "drop_unknown", pos |-> Len(t), arg |-> 0]}
    \cup {[phrase |-> Append(t, w), kind |-> "append", pos |-> Len(t) + 1, arg |-> w] :
            w \in {0, empty_word}}

Typed ==
    {[phrase |-> TypedPhrase(i), kind |-> "typed", pos |-> 0, arg |-> i] : i \in 0..MaxTyped}

Init ==
    /\ request \in Requests
    /\ gen = NoSeed("none")
    /\ text = no_text
    /\ input = no_input
    /\ par = NoSeed("none")
    /\ reprint = no_text

\* monero_seed seed(date_created)
GenerateSeed ==
    /\ request # no_request
    /\ \E random \in Seeds, rc \in ReturnCodes :
          gen' = Generate(DateOf(request), random, rc)
    /\ request' = no_request
    /\ UNCHANGED <<text, input, par, reprint>>

\* os << seed, for the generated seed
WriteGenerated ==
    /\ gen.status = "ok"
    /\ text = no_text
    /\ text' = print_seed(gen)
    /\ UNCHANGED <<request, gen, input, par, reprint>>

\* monero_seed seed(phrase)
ParsePhrase ==
    /\ par.status = "none"
    /\ \E in \in Typed \cup (IF text = no_text THEN {} ELSE Edited(text)) :
       \E out \in Parse(in.phrase, ReturnCodes) :
          /\ input' = in
          /\ par' = out
    /\ UNCHANGED <<request, gen, text, reprint>>

\* os << seed, for the parsed seed
WriteParsed ==
    /\ par.status = "ok"
    /\ reprint = no_text
    /\ reprint' = print_seed(par)
    /\ UNCHANGED <<request, gen, text, input, par>>

Next == GenerateSeed \/ WriteGenerated \/ ParsePhrase \/ WriteParsed

Spec == Init /\ [][Next]_vars

(***************************************************************************)
(* The layout of a codeword, read off the coefficients directly: 154 bits, *)
(* coefficient 0 first, most significant bit first.                        *)
(***************************************************************************)
codeword_bit(message, k) ==
    Shr(message.coeff[(k \div gf_size) + 1], gf_size - 1 - (k % gf_size)) % 2

\* the number written in the n bits from bit `first` on
RECURSIVE bit_slice(_, _, _)
bit_slice(message, first, n) ==
    IF n = 0 THEN 0
    ELSE 2 * bit_slice(message, first, n - 1) + codeword_bit(message, first + n - 1)

version_field(message) == bit_slice(message, checksum_size, version_bits)
reserved_field(message) == bit_slice(message, checksum_size + version_bits, reserved_bits)
date_field(message) ==
    bit_slice(message, checksum_size + version_bits + reserved_bits, date_bits)
seed_field(message) ==
    [i \in 1..seed_size |->
        bit_slice(message,
                  checksum_size + version_bits + reserved_bits + date_bits
                      + CHAR_BIT * (i - 1),
                  CHAR_BIT)]

\* the 32-bit little-endian number in bytes 21..24 of the salt
salt_date(salt) == salt[22] + 256 * salt[23] + 65536 * salt[24] + 16777216 * salt[25]

\* epoch + q * time_step
date_of_step(q) == WAdd(ToWide(epoch), WMul(q, time_step))

\* a phrase of 14 wordlist words that passes RS verify
valid_phrase(t) ==
    /\ Len(t) = phrase_words
    /\ \A i \in 1..Len(t) : wordlist_parse(t[i]) # absent
    /\ rs_check(set_degree([coeff |-> t, degree |-> max_degree]))

\* the erased coefficient solved for directly, for the single root of g:
\* c_e * root^e = sum of the other c_i * root^i
direct_solve(message, e) ==
    LET root == gf_pow(gf_generator, 0)
        others == [coeff |-> [message.coeff EXCEPT ![e + 1] = 0], degree |-> max_degree]
    IN gf_mul(poly_eval(others, root), gf_inv(gf_pow(root, e)))

(***************************************************************************)
(* The claims.                                                             *)
(***************************************************************************)

\* C1: a phrase printed from a generated seed and parsed back unchanged gives
\* the seed, version, reserved bits and date of the generated seed, the date
\* being epoch + quantized_date * time_step.
C1_RoundTrip ==
    (input.kind = "same" /\ gen.status = "ok") =>
        /\ par.status = "ok"
        /\ par.seed = gen.seed
        /\ par.version = gen.version
        /\ par.reserved = gen.reserved
        /\ par.date = gen.date
        /\ par.date = date_of_step(salt_date(gen.key.salt))

C1_Witness ==
    /\ input.kind = "same"
    /\ par.status = "ok"
    /\ par.seed = SeedPattern(1)
    /\ salt_date(gen.key.salt) = 1023

\* C2: with the word at any one position of a valid phrase replaced by the
\* erasure marker, the phrase is parsed, the correction is the original word,
\* it is the only field value that passes the check, and it is the value the
\* direct solve gives.
C2_ErasureRecovered ==
    (input.kind = "erase" /\ reprint = no_text /\ valid_phrase(text)) =>
        /\ par.status = "ok"
        /\ par.correction = text[input.pos]
        /\ par.message.coeff = text
        /\ par.correction = wordlist_get_word(direct_solve(par.message, input.pos - 1))
        /\ \A v \in 0..(gf_elements - 1) :
              check_with(par.message, input.pos - 1, v) => wordlist_get_word(v) = par.correction

C2_Witness ==
    /\ input.kind = "erase"
    /\ valid_phrase(text)
    /\ input.pos = phrase_words
    /\ par.status = "ok"
    /\ par.correction = text[phrase_words]
    /\ par.correction > 0

\* C3: with the word at any one position of a valid phrase replaced by
\* another wordlist word, Parse fails with a checksum mismatch.
C3_SubstitutionRejected ==
    (input.kind = "substitute" /\ valid_phrase(text)) => par.status = "ChecksumMismatch"

C3_Witness ==
    /\ input.kind = "substitute"
    /\ valid_phrase(text)
    /\ input.pos = 8
    /\ wordlist_parse(input.phrase[8]) # absent
    /\ input.phrase[8] # text[8]
    /\ par.status = "ChecksumMismatch"

\* C4: two constructed seeds with the same seed bytes, version bits and date
\* bits hand the same password and the same salt to Argon2id.
C4_KeyInputsDetermined ==
    (/\ gen.status = "ok"
     /\ par.status = "ok"
     /\ gen.seed = par.seed
     /\ version_field(gen.message) = version_field(par.message)
     /\ date_field(gen.message) = date_field(par.message)) =>
        /\ gen.key.pwd = par.key.pwd
        /\ gen.key.salt = par.key.salt

\* C5: the phrase printed from a generated seed has exactly 14 tokens, each
\* of them a word of the wordlist.
C5_FourteenWords ==
    (text # no_text) =>
        /\ Len(text) = phrase_words
        /\ \A i \in 1..Len(text) : wordlist_parse(text[i]) # absent

C5_Witness ==
    /\ text # no_text
    /\ Len(text) = phrase_words
    /\ text[phrase_words] = 0
    /\ \E i \in 1..Len(text) : text[i] # 0

\* C6: a phrase whose number of tokens is not 14 is refused for its token
\* count, whatever the tokens are.
C6_WrongTokenCount ==
    (input.kind # "none" /\ Len(input.phrase) # phrase_words) =>
        par.status = "WrongTokenCount"

\* C7: a seed whose key Argon2id failed to derive is not constructed: the
\* constructor reports the failure.
C7_KdfFailureReported ==
    /\ (gen.key.called /\ ~gen.key.derived) => gen.status = "KdfFailure"
    /\ (par.key.called /\ ~par.key.derived) => par.status = "KdfFailure"

\* C8: a date is accepted exactly when it is not before the epoch; the date
\* epoch + k * time_step + r with 0 <= r < time_step gets the quantized date
\* k mod 1024 and the date epoch + (k mod 1024) * time_step.
C8_DateQuantized ==
    [][(request # no_request /\ request' = no_request) =>
          /\ (gen'.status = "ok") <=> (request.k >= 0)
          /\ (gen'.status # "ok") => (gen'.status = "DateBeforeEpoch")
          /\ (gen'.status = "ok") =>
                /\ salt_date(gen'.key.salt) = request.k % 1024
                /\ date_field(gen'.message) = request.k % 1024
                /\ gen'.date = date_of_step(request.k % 1024)]_vars

C8_Witness ==
    /\ gen.status = "ok"
    /\ request = no_request
    /\ salt_date(gen.key.salt) = 1023
    /\ gen.date = date_of_step(1023)

\* C9: every field of a parsed seed is the number in its own bits of the
\* codeword: version 3 bits after the checksum, then reserved 2 bits, then
\* the quantized date 10 bits, then the 16 seed bytes.
C9_FieldsFromOwnBits ==
    (par.status = "ok") =>
        /\ par.version = version_field(par.message)
        /\ par.reserved = reserved_field(par.message)
        /\ salt_date(par.key.salt) = date_field(par.message)
        /\ par.date = date_of_step(date_field(par.message))
        /\ par.seed = seed_field(par.message)

\* C10: a phrase of 14 wordlist words that Parse accepts is printed back
\* word for word.
C10_ReprintIdentical ==
    (reprint # no_text /\ input.kind \in {"same", "typed"}) => reprint = input.phrase

====
